---- MODULE Spec2Model ----
(***************************************************************************)
(* Rust-Counter: a namespaced counter store over HTTP (src/main.rs).       *)
(*                                                                         *)
(* The PostgreSQL table `counters` is a bag of rows; the three SQL         *)
(* statements of the program are operators on it.  Server processes run    *)
(* main (pool, init_db, serve); every request runs one of the two          *)
(* handlers in three steps: take a pool connection, execute the            *)
(* statement, build the response from the result.                          *)
(***************************************************************************)
EXTENDS Integers, Sequences, FiniteSets, Bags, TLC

VARIABLES
    tableExists,  \* the relation `counters` exists in the database
    table,        \* bag of rows [namespace, counter_name, count]
    proc,         \* server processes: position in main
    inUse,        \* per process: pool connections checked out
    req,          \* requests: position in the handler, inputs, result, response
    lastCommit    \* history: per key, the count of the upsert committed last

vars == <<tableExists, table, proc, inUse, req, lastCommit>>

----------------------------------------------------------------------------
(* Bounds *)

MaxRequests == 2      \* requests that can be open at the same time
MaxCount == 2         \* counts submitted are 0..MaxCount

(* Program constants *)

MaxConnections == 5   \* PgPoolOptions::max_connections(5)

----------------------------------------------------------------------------
(* Inputs *)

\* Two keys share a namespace and two share a name.
Keys == {<<"a", "x">>, <<"a", "y">>, <<"b", "x">>}

Counts == 0..MaxCount

\* An optional value: <<>> is None / NULL, <<v>> is Some(v).
None == <<>>
Some(v) == <<v>>
Opt(S) == {None} \cup {Some(v) : v \in S}

----------------------------------------------------------------------------
(* The table `counters` and the three SQL statements *)

Row(ns, cn, c) == [namespace |-> ns, counter_name |-> cn, count |-> c]

\* The number in a count column, 0 for NULL.
UnwrapCount(c) == IF c = None THEN 0 ELSE c[1]

\* Variant: the key is the counter name alone.
RowsOfAnyNamespace(t, ns, cn) ==
    {row \in BagToSet(t) : row.counter_name = cn}

\* Rows a statement addresses with namespace = $1 AND counter_name = $2,
\* which is also the conflict target of the primary key.
RowsOf(t, ns, cn) ==
    {row \in BagToSet(t) : row.namespace = ns /\ row.counter_name = cn}

\* Variant: DO UPDATE SET count = counters.count + EXCLUDED.count
UpsertAccumulate(t, ns, cn, c) ==
    IF RowsOfAnyNamespace(t, ns, cn) \cap
       {row \in BagToSet(t) : row.namespace = ns} = {}
    THEN [err |-> "", rows |-> t (+) SetToBag({Row(ns, cn, Some(c))})]
    ELSE LET old == CHOOSE row \in BagToSet(t) :
                        row.namespace = ns /\ row.counter_name = cn
         IN  [err |-> "",
              rows |-> (t (-) SetToBag({old}))
                         (+) SetToBag({[old EXCEPT
                                !.count = Some(UnwrapCount(old.count) + c)]})]

\* Variant: ON CONFLICT (namespace, counter_name) DO NOTHING
UpsertDoNothing(t, ns, cn, c) ==
    IF {row \in BagToSet(t) : row.namespace = ns /\ row.counter_name = cn} = {}
    THEN [err |-> "", rows |-> t (+) SetToBag({Row(ns, cn, Some(c))})]
    ELSE [err |-> "", rows |-> t]

\* Variant: a plain INSERT into a table without the primary key.
UpsertInsert(t, ns, cn, c) ==
    [err |-> "", rows |-> t (+) SetToBag({Row(ns, cn, Some(c))})]

\* Variant: INSERT INTO counters (namespace, counter_name) VALUES ($1, $2),
\* the count column is left out of the insert.
UpsertOmitCount(t, ns, cn, c) ==
    IF {row \in BagToSet(t) : row.namespace = ns /\ row.counter_name = cn} = {}
    THEN [err |-> "", rows |-> t (+) SetToBag({Row(ns, cn, None)})]
    ELSE LET old == CHOOSE row \in BagToSet(t) :
                        row.namespace = ns /\ row.counter_name = cn
         IN  [err |-> "",
              rows |-> (t (-) SetToBag({old}))
                         (+) SetToBag({[old EXCEPT !.count = Some(c)]})]

\* INSERT INTO counters (namespace, counter_name, count) VALUES ($1, $2, $3)
\* ON CONFLICT (namespace, counter_name) DO UPDATE SET count = EXCLUDED.count
\* The statement's error ("" when it has none) and the rows after it.
Upsert(t, ns, cn, c) ==
    IF RowsOf(t, ns, cn) = {}
    THEN [err |-> "", rows |-> t (+) SetToBag({Row(ns, cn, Some(c))})]
    ELSE LET old == CHOOSE row \in RowsOf(t, ns, cn) : TRUE
         IN  [err |-> "",
              rows |-> (t (-) SetToBag({old}))
                         (+) SetToBag({[old EXCEPT !.count = Some(c)]})]

\* Variant: WHERE counter_name = $2
SelectByName(t, ns, cn) ==
    IF {row \in BagToSet(t) : row.counter_name = cn} = {}
    THEN None
    ELSE Some((CHOOSE row \in BagToSet(t) : row.counter_name = cn).count)

\* SELECT count FROM counters WHERE namespace = $1 AND counter_name = $2,
\* fetch_optional: the first row if any.  A row is its nullable count.
Select(t, ns, cn) ==
    IF RowsOf(t, ns, cn) = {}
    THEN None
    ELSE Some((CHOOSE row \in RowsOf(t, ns, cn) : TRUE).count)

\* Variant: DROP TABLE IF EXISTS counters, then CREATE TABLE counters (...)
CreateTableDrop(exists, t) == [err |-> "", rows |-> EmptyBag]

\* CREATE TABLE IF NOT EXISTS counters (...): never an error; the rows of
\* an existing table stay, a new table is empty.
CreateTable(exists, t) ==
    [err |-> "", rows |-> IF exists THEN t ELSE EmptyBag]

----------------------------------------------------------------------------
(* Results of the store calls and the responses built from them *)

\* Result<_, sqlx::Error> of execute / fetch_optional.
OkResult(row) == [ok |-> TRUE, err |-> "", row |-> row]
ErrResult(e) == [ok |-> FALSE, err |-> e, row |-> None]
NoResult == [ok |-> FALSE, err |-> "-", row |-> None]

\* An HTTP response: the status and the JSON body, {"count": c} or
\* {"error": e} (error = "" and count = None: a body the framework wrote).
CountResponse(status, c) == [status |-> status, count |-> Some(c), error |-> ""]
ErrorResponse(status, e) == [status |-> status, count |-> None, error |-> e]
NoResponse == [status |-> 0, count |-> None, error |-> ""]

\* Variant: `.await?`, the error is returned and the framework writes the body.
UpdateCounterResponsePropagate(counter, result) ==
    IF result.ok
    THEN CountResponse(200, counter)
    ELSE ErrorResponse(500, "")

\* Variant: `let _ = result;`, the result of the store call is not looked at.
UpdateCounterResponseUnchecked(counter, result) ==
    CountResponse(200, counter)

\* update_counter, match result
UpdateCounterResponse(counter, result) ==
    IF result.ok
    THEN CountResponse(200, counter)
    ELSE ErrorResponse(500, result.err)

\* row.count.unwrap_or(0)
UnwrapOr(opt, default) == IF opt = None THEN default ELSE opt[1]

\* Variant: a missing row reads as a counter of 0.
GetCounterResponseDefault(result) ==
    IF result.ok
    THEN CountResponse(200, IF result.row = None THEN 0
                            ELSE UnwrapOr(result.row[1], 0))
    ELSE ErrorResponse(500, result.err)

\* get_counter, match result
GetCounterResponse(result) ==
    IF result.ok /\ result.row # None
    THEN CountResponse(200, UnwrapOr(result.row[1], 0))
    ELSE IF result.ok
         THEN ErrorResponse(404, "Counter not found")
         ELSE ErrorResponse(500, result.err)

----------------------------------------------------------------------------
(* The request boundary: route and extractors *)

\* A request path below /api is its sequence of segments.
GoodPaths == {<<k[1], k[2]>> : k \in Keys}
BadPaths == {<<"a">>, <<"", "x">>}
Paths == GoodPaths \cup BadPaths

\* A request body: a JSON document.  kind "int" is {"count": val} with val
\* an integer that fits i64; the other kinds carry no usable count.
IntBody(v) == [kind |-> "int", val |-> v]
BadBody(k) == [kind |-> k, val |-> 0]
NoBody == BadBody("none")
BadBodies == {BadBody("missing"), BadBody("string")}
Bodies == {IntBody(v) : v \in Counts} \cup BadBodies

\* The route "/api/{namespace}/{counter}": exactly two non-empty segments.
RouteMatches(path) == Len(path) = 2 /\ path[1] # "" /\ path[2] # ""

\* Variant: #[serde(default)] on count, a body without the field is count 0.
DeserializeCounterDefault(body) ==
    IF body.kind = "int" THEN Some(body.val)
    ELSE IF body.kind = "missing" THEN Some(0)
    ELSE None

\* web::Json<Counter>: the body deserialized to Counter { count: i64 }.
DeserializeCounter(body) == IF body.kind = "int" THEN Some(body.val) ELSE None

\* What the framework answers before a handler runs, None when the handler
\* is called: no route -> 404, extractor failure -> 400.
Rejection(method, path, body) ==
    IF ~RouteMatches(path)
    THEN Some(404)
    ELSE IF method = "POST" /\ DeserializeCounter(body) = None
         THEN Some(400)
         ELSE None

----------------------------------------------------------------------------
(* State *)

\* The processes and the request slots of a behaviour are fixed by its
\* initial state.
Procs == DOMAIN proc
Reqs == DOMAIN req

\* A request slot nobody uses.  calls counts the store calls of the handler
\* that have returned; queued tells that every connection of the pool was in
\* use when the request arrived.
Idle ==
    [pc |-> "idle", method |-> "-", path |-> <<>>, body |-> NoBody,
     proc |-> "-", result |-> NoResult, resp |-> NoResponse,
     seen |-> None, cands |-> {}, calls |-> 0, queued |-> FALSE]

\* The handler's (namespace, counter_name) = path.into_inner()
Namespace(r) == req[r].path[1]
CounterName(r) == req[r].path[2]
KeyOf(r) == <<Namespace(r), CounterName(r)>>

\* Requests whose handler has been called and has not answered yet.
InFlight(r) == req[r].pc \in {"acquire", "exec", "respond"}

\* A fresh database, no process started, no request open.
InitWith(procs, reqs) ==
    /\ tableExists = FALSE
    /\ table = EmptyBag
    /\ proc = [p \in procs |-> [pc |-> "stopped", err |-> ""]]
    /\ inUse = [p \in procs |-> 0]
    /\ req = [r \in reqs |-> Idle]
    /\ lastCommit = [k \in Keys |-> None]

\* One server process answering up to MaxRequests requests at a time.
Init == InitWith({"p1"}, 1..MaxRequests)

\* Two server processes on the same database: one may start while the other
\* serves.
InitTwo == InitWith({"p1", "p2"}, 1..MaxRequests)

----------------------------------------------------------------------------
(* main *)

\* PgPoolOptions::new().max_connections(5).connect(..).await.expect(..)
Connect(p) ==
    /\ proc[p].pc \in {"stopped", "aborted"}
    /\ \E outcome \in {"ok", "fail"} :
         proc' = [proc EXCEPT ![p] =
                    IF outcome = "ok"
                    THEN [pc |-> "pool", err |-> ""]
                    ELSE [pc |-> "aborted", err |-> "pool"]]
    /\ UNCHANGED <<tableExists, table, inUse, req, lastCommit>>

\* Variant: `init_db(&pool).await.ok();`, a failed init_db is ignored.
InitDbDegraded(p) ==
    /\ proc[p].pc = "pool"
    /\ \E outcome \in {"ok", "io"} :
         /\ tableExists' = IF outcome = "ok" THEN TRUE ELSE tableExists
         /\ table' = IF outcome = "ok"
                     THEN CreateTable(tableExists, table).rows
                     ELSE table
         /\ proc' = [proc EXCEPT ![p] = [pc |-> "serving", err |-> ""]]
    /\ UNCHANGED <<inUse, req, lastCommit>>

\* init_db(&pool).await.expect(..), then HttpServer::new(..).bind(..)?.run().
\* outcome "io": the statement never reached the database.
\* outcome "bind": the table is there but the port cannot be bound.
InitDb(p) ==
    /\ proc[p].pc = "pool"
    /\ \E outcome \in {"ok", "io", "bind"} :
         IF outcome = "io"
         THEN /\ proc' = [proc EXCEPT ![p] = [pc |-> "aborted", err |-> "io"]]
              /\ UNCHANGED <<tableExists, table>>
         ELSE LET created == CreateTable(tableExists, table)
              IN  IF created.err = ""
                  THEN /\ tableExists' = TRUE
                       /\ table' = created.rows
                       /\ proc' = [proc EXCEPT ![p] =
                                     IF outcome = "ok"
                                     THEN [pc |-> "serving", err |-> ""]
                                     ELSE [pc |-> "aborted", err |-> "bind"]]
                  ELSE /\ proc' = [proc EXCEPT ![p] =
                                     [pc |-> "aborted", err |-> created.err]]
                       /\ UNCHANGED <<tableExists, table>>
    /\ UNCHANGED <<inUse, req, lastCommit>>

\* .run().await returns: the server stops once its requests are answered
\* and their connections closed.
Shutdown(p) ==
    /\ proc[p].pc = "serving"
    /\ \A r \in Reqs : req[r].proc # p
    /\ proc' = [proc EXCEPT ![p] = [pc |-> "stopped", err |-> ""]]
    /\ UNCHANGED <<tableExists, table, inUse, req, lastCommit>>

----------------------------------------------------------------------------
(* Requests *)

\* A request arrives at a serving process and gets the first free slot.  The
\* route and the extractors either answer it at once or call the handler.
\* The client sends one of `methods` on one of `paths` with one of `bodies`.
Receive(r, methods, paths, bodies) ==
    /\ req[r].pc = "idle"
    /\ \A q \in Reqs : q < r => req[q].pc # "idle"
    /\ \E p \in Procs, method \in methods, path \in paths, b \in bodies :
         /\ proc[p].pc = "serving"
         /\ method = "GET" => b = CHOOSE x \in bodies : TRUE
         /\ LET body == IF method = "GET" THEN NoBody ELSE b
                rej == Rejection(method, path, body)
                new == [Idle EXCEPT !.method = method, !.path = path,
                                    !.body = body, !.proc = p]
            IN  req' = [req EXCEPT ![r] =
                   IF rej # None
                   THEN [new EXCEPT !.pc = "done",
                                    !.resp = ErrorResponse(rej[1], "")]
                   ELSE [new EXCEPT !.pc = "acquire",
                                    !.queued = (inUse[p] = MaxConnections),
                                    !.cands = IF method = "GET"
                                              THEN {lastCommit[<<path[1], path[2]>>]}
                                              ELSE {}]]
    /\ UNCHANGED <<tableExists, table, proc, inUse, lastCommit>>

\* Variant: a pool without max_connections.
AcquireUnbounded(r) ==
    /\ req[r].pc = "acquire"
    /\ inUse' = [inUse EXCEPT ![req[r].proc] = @ + 1]
    /\ req' = [req EXCEPT ![r].pc = "exec"]
    /\ UNCHANGED <<tableExists, table, proc, lastCommit>>

\* execute(db) / fetch_optional(db) takes a connection of the pool; it waits
\* while all of them are in use.
Acquire(r) ==
    /\ req[r].pc = "acquire"
    /\ inUse[req[r].proc] < MaxConnections
    /\ inUse' = [inUse EXCEPT ![req[r].proc] = @ + 1]
    /\ req' = [req EXCEPT ![r].pc = "exec"]
    /\ UNCHANGED <<tableExists, table, proc, lastCommit>>

\* The pool cannot give a connection and the store call returns Err: a new
\* connection cannot be opened, or all connections stay in use for the pool's
\* acquire timeout (PgPoolOptions::new() sets it; main does not change it).
AcquireFail(r) ==
    /\ req[r].pc = "acquire"
    /\ LET e == IF inUse[req[r].proc] < MaxConnections
                THEN "io"
                ELSE "pool timed out"
       IN  req' = [req EXCEPT ![r].pc = "respond", ![r].result = ErrResult(e),
                              ![r].calls = @ + 1]
    /\ UNCHANGED <<tableExists, table, proc, inUse, lastCommit>>

\* The database executes the upsert as one statement and the connection goes
\* back to the pool.
\* outcome "fail": the statement is not executed.
\* outcome "lost": the statement is executed and its reply does not arrive.
ExecUpsert(r) ==
    /\ req[r].pc = "exec"
    /\ req[r].method = "POST"
    /\ \E outcome \in {"ok", "fail", "lost"} :
         LET count == DeserializeCounter(req[r].body)[1]
             done == IF tableExists
                     THEN Upsert(table, Namespace(r), CounterName(r), count)
                     ELSE [err |-> "relation", rows |-> table]
             commits == outcome # "fail" /\ done.err = ""
             result == IF outcome # "ok" THEN ErrResult("io")
                       ELSE IF done.err # "" THEN ErrResult(done.err)
                       ELSE OkResult(None)
         IN  /\ table' = IF commits THEN done.rows ELSE table
             /\ lastCommit' = IF commits
                              THEN [lastCommit EXCEPT ![KeyOf(r)] = Some(count)]
                              ELSE lastCommit
             /\ req' = [q \in Reqs |->
                   IF q = r
                   THEN [req[q] EXCEPT !.pc = "respond", !.result = result,
                                       !.calls = @ + 1]
                   ELSE IF /\ commits
                           /\ req[q].method = "GET"
                           /\ req[q].pc \in {"acquire", "exec"}
                           /\ KeyOf(q) = KeyOf(r)
                        THEN [req[q] EXCEPT !.cands = @ \cup {Some(count)}]
                        ELSE req[q]]
    /\ inUse' = [inUse EXCEPT ![req[r].proc] = @ - 1]
    /\ UNCHANGED <<tableExists, proc>>

\* Variant: get-or-create, a lookup that finds no row inserts one with count 0.
ExecSelectCreate(r) ==
    /\ req[r].pc = "exec"
    /\ req[r].method = "GET"
    /\ \E outcome \in {"ok", "fail"} :
         LET found == Select(table, Namespace(r), CounterName(r))
             result == IF outcome = "ok" /\ tableExists
                       THEN OkResult(IF found = None THEN Some(Some(0)) ELSE found)
                       ELSE ErrResult("io")
         IN  /\ req' = [req EXCEPT ![r].pc = "respond",
                                   ![r].result = result,
                                   ![r].calls = @ + 1,
                                   ![r].cands = {},
                                   ![r].seen = IF result.ok
                                               THEN lastCommit[KeyOf(r)]
                                               ELSE None]
             /\ table' = IF result.ok /\ found = None
                         THEN table (+) SetToBag(
                                  {Row(Namespace(r), CounterName(r), Some(0))})
                         ELSE table
    /\ inUse' = [inUse EXCEPT ![req[r].proc] = @ - 1]
    /\ UNCHANGED <<tableExists, proc, lastCommit>>

\* The database executes the select and the connection goes back to the pool.
ExecSelect(r) ==
    /\ req[r].pc = "exec"
    /\ req[r].method = "GET"
    /\ \E outcome \in {"ok", "fail"} :
         LET result == IF outcome = "ok" /\ tableExists
                       THEN OkResult(Select(table, Namespace(r), CounterName(r)))
                       ELSE IF outcome = "ok" THEN ErrResult("relation")
                       ELSE ErrResult("io")
         IN  req' = [req EXCEPT ![r].pc = "respond",
                                ![r].result = result,
                                ![r].calls = @ + 1,
                                ![r].cands = {},
                                ![r].seen = IF result.ok
                                            THEN lastCommit[KeyOf(r)]
                                            ELSE None]
    /\ inUse' = [inUse EXCEPT ![req[r].proc] = @ - 1]
    /\ UNCHANGED <<tableExists, table, proc, lastCommit>>

\* Variant: a store call that returned Err is made once more.
RespondRetry(r) ==
    /\ req[r].pc = "respond"
    /\ req' = [req EXCEPT ![r] =
                 IF ~req[r].result.ok /\ req[r].calls < 2
                 THEN [@ EXCEPT !.pc = "acquire", !.result = NoResult]
                 ELSE [@ EXCEPT
                         !.pc = "done",
                         !.resp =
                            IF req[r].method = "POST"
                            THEN UpdateCounterResponse(
                                     DeserializeCounter(req[r].body)[1],
                                     req[r].result)
                            ELSE GetCounterResponse(req[r].result)]]
    /\ UNCHANGED <<tableExists, table, proc, inUse, lastCommit>>

\* match result { .. }: the handler answers.
Respond(r) ==
    /\ req[r].pc = "respond"
    /\ req' = [req EXCEPT
                 ![r].pc = "done",
                 ![r].resp =
                    IF req[r].method = "POST"
                    THEN UpdateCounterResponse(
                             DeserializeCounter(req[r].body)[1], req[r].result)
                    ELSE GetCounterResponse(req[r].result)]
    /\ UNCHANGED <<tableExists, table, proc, inUse, lastCommit>>

\* The client has its response; the slot is free again.
Close(r) ==
    /\ req[r].pc = "done"
    /\ req' = [req EXCEPT ![r] = Idle]
    /\ UNCHANGED <<tableExists, table, proc, inUse, lastCommit>>

----------------------------------------------------------------------------

\* The steps of the processes and of the handlers.
Serve ==
    \/ \E p \in Procs : Connect(p)
    \/ \E p \in Procs : InitDb(p)
    \/ \E p \in Procs : Shutdown(p)
    \/ \E r \in Reqs : Acquire(r)
    \/ \E r \in Reqs : AcquireFail(r)
    \/ \E r \in Reqs : ExecUpsert(r)
    \/ \E r \in Reqs : ExecSelect(r)
    \/ \E r \in Reqs : Respond(r)
    \/ \E r \in Reqs : Close(r)

Next ==
    \/ \E r \in Reqs : Receive(r, {"POST", "GET"}, Paths, Bodies)
    \/ Serve

Spec == Init /\ [][Next]_vars

\* Two processes, two requests at a time, all on one key.
NextTwo ==
    \/ \E r \in Reqs : Receive(r, {"POST", "GET"}, {<<"a", "x">>},
                                {IntBody(v) : v \in Counts})
    \/ Serve

SpecTwo == InitTwo /\ [][NextTwo]_vars

----------------------------------------------------------------------------
(* The race: one Set per count, all on the key a/x of a fresh table and all
   open at once; a Get is sent when every one of them is answered. *)

RaceKey == <<"a", "x">>
RacePath == <<RaceKey[1], RaceKey[2]>>
Racers == 1..(MaxCount + 1)

InitRace ==
    /\ tableExists = TRUE
    /\ table = EmptyBag
    /\ proc = [p \in {"p1"} |-> [pc |-> "serving", err |-> ""]]
    /\ inUse = [p \in {"p1"} |-> 0]
    /\ req = [r \in 1..(MaxCount + 2) |->
                IF r \in Racers
                THEN [Idle EXCEPT !.pc = "acquire", !.method = "POST",
                                  !.path = RacePath, !.body = IntBody(r - 1),
                                  !.proc = "p1"]
                ELSE Idle]
    /\ lastCommit = [k \in Keys |-> None]

ReceiveAfter(r) ==
    /\ \A q \in Racers : req[q].pc = "done"
    /\ Receive(r, {"GET"}, {RacePath}, {NoBody})

CloseGet(r) ==
    /\ req[r].method = "GET"
    /\ Close(r)

NextRace ==
    \/ \E r \in Reqs : ReceiveAfter(r)
    \/ \E r \in Reqs : Acquire(r)
    \/ \E r \in Reqs : AcquireFail(r)
    \/ \E r \in Reqs : ExecUpsert(r)
    \/ \E r \in Reqs : ExecSelect(r)
    \/ \E r \in Reqs : Respond(r)
    \/ \E r \in Reqs : CloseGet(r)

SpecRace == InitRace /\ [][NextRace]_vars

----------------------------------------------------------------------------
(* The pool: one serving process whose pool connections are all taken by
   Gets of a key nobody has written, and one more request to come. *)

PoolReqs == 1..(MaxConnections + 1)

InitPool ==
    /\ tableExists = TRUE
    /\ table = EmptyBag
    /\ proc = [p \in {"p1"} |-> [pc |-> "serving", err |-> ""]]
    /\ inUse = [p \in {"p1"} |-> MaxConnections]
    /\ req = [r \in PoolReqs |->
                IF r <= MaxConnections
                THEN [Idle EXCEPT !.pc = "exec", !.method = "GET",
                                  !.path = <<"a", "x">>, !.proc = "p1",
                                  !.cands = {None}]
                ELSE Idle]
    /\ lastCommit = [k \in Keys |-> None]

NextPool ==
    \/ \E r \in PoolReqs : Receive(r, {"GET"}, {<<"a", "x">>}, {NoBody})
    \/ \E r \in PoolReqs : Acquire(r)
    \/ \E r \in PoolReqs : AcquireFail(r)
    \/ \E r \in PoolReqs : ExecSelect(r)
    \/ \E r \in PoolReqs : Respond(r)

\* The pool's acquire returns a connection or an error in bounded time, the
\* database answers or the connection breaks, and the runtime polls a
\* handler whose store call has returned.
FairPool ==
    \A r \in PoolReqs :
        /\ WF_vars(Acquire(r) \/ AcquireFail(r))
        /\ WF_vars(ExecSelect(r))
        /\ WF_vars(Respond(r))

SpecPool == InitPool /\ [][NextPool]_vars /\ FairPool

----------------------------------------------------------------------------
(* Vocabulary of the properties *)

IsPost(r) == req[r].method = "POST"
IsGet(r) == req[r].method = "GET"

\* The count a POST submitted.
Submitted(r) == req[r].body.val

\* What a lookup returns for a key whose history is h: no row before the
\* first commit, then the row holding the count committed last.
RowFor(h) == IF h = None THEN None ELSE Some(h)

\* What a lookup of key k returns now.
Lookup(k) == Select(table, k[1], k[2])

\* The rows of the table, with their numbers of copies, outside key k.
RowsExcept(t, k) ==
    {<<row, CopiesIn(row, t)>> : row \in
        {x \in BagToSet(t) : <<x.namespace, x.counter_name>> # k}}

\* The step in which the database executes the statement of request r.
UpsertStep(r) ==
    req[r].pc = "exec" /\ IsPost(r) /\ req'[r].pc = "respond"
SelectStep(r) ==
    req[r].pc = "exec" /\ IsGet(r) /\ req'[r].pc = "respond"

\* A GET that is answered and whose lookup returned Ok.
Answered(r) == IsGet(r) /\ req[r].pc = "done" /\ req[r].result.ok

----------------------------------------------------------------------------
(* C1: round trip.  A GET whose lookup runs when the Set committed last on
   its key submitted v (that Set succeeded and no other Set on the key has
   committed since) answers 200 with count = v. *)
RoundTrip ==
    \A r \in Reqs :
        (Answered(r) /\ req[r].seen # None)
            => req[r].resp = CountResponse(200, req[r].seen[1])

RoundTripWitness ==
    \E r, q \in Reqs :
        /\ IsPost(q) /\ req[q].pc = "done" /\ req[q].resp.status = 200
        /\ Submitted(q) = 2
        /\ Answered(r) /\ KeyOf(r) = KeyOf(q)
        /\ req[r].resp = CountResponse(200, 2)

(* C2: concurrent write safety.  After the Sets of the race, all on one key
   with pairwise distinct counts and in any interleaving, are all answered,
   a Get whose lookup succeeds answers 200 if any of them was answered 200,
   and a 200 carries one of the submitted counts, held by the single row of
   the key; it answers 404 only if none of them committed. *)
ConcurrentWriteSafety ==
    \A g \in Reqs :
        Answered(g) =>
            /\ (\E q \in Racers : req[q].resp.status = 200)
                  => req[g].resp.status = 200
            /\ req[g].resp.status = 200 =>
                  /\ req[g].resp.count[1] \in {Submitted(q) : q \in Racers}
                  /\ BagCardinality(table) = 1
            /\ req[g].resp.status # 200 =>
                  /\ req[g].resp = ErrorResponse(404, "Counter not found")
                  /\ lastCommit[RaceKey] = None

ConcurrentWriteSafetyWitness ==
    \E g \in Reqs :
        /\ Answered(g)
        /\ \A q \in Racers : req[q].resp.status = 200
        /\ req[g].resp = CountResponse(200, 1)

(* C3: uniqueness.  In every state reached by any interleaving of Sets, Gets
   and Initialize calls of two processes, no two rows of the table share
   (namespace, counter_name) and no row is there twice; a Set fails only
   when the database cannot be reached, never on a constraint. *)
Uniqueness ==
    /\ \A row \in BagToSet(table) : CopiesIn(row, table) = 1
    /\ \A r1, r2 \in BagToSet(table) :
          (r1.namespace = r2.namespace /\ r1.counter_name = r2.counter_name)
              => r1 = r2
    /\ \A r \in Reqs :
          (IsPost(r) /\ req[r].pc \in {"respond", "done"} /\ ~req[r].result.ok)
              => req[r].result.err = "io"

UniquenessWitness ==
    \E r, q \in Reqs :
        /\ IsPost(r) /\ IsPost(q) /\ req[r].proc # req[q].proc
        /\ req[r].pc = "respond" /\ req[q].pc = "respond"
        /\ req[r].result.ok /\ req[q].result.ok
        /\ Submitted(r) # Submitted(q)
        /\ BagCardinality(table) = 1

(* C4: last commit wins.  For every key the table holds, at every moment,
   the count of the Set that committed last on the key (no row before the
   first commit), and a lookup returns exactly that, so never a count older
   than that of a Set answered before the Get began. *)
LastCommitWins ==
    /\ [](\A k \in Keys : Lookup(k) = RowFor(lastCommit[k]))
    /\ [][\A r \in Reqs :
            (SelectStep(r) /\ req'[r].result.ok)
                => req'[r].result.row = RowFor(lastCommit[KeyOf(r)])]_vars

LastCommitWinsWitness ==
    \E r, q \in Reqs :
        /\ IsPost(q) /\ req[q].pc = "done" /\ req[q].resp.status = 200
        /\ Submitted(q) = 2
        /\ Answered(r) /\ KeyOf(r) = KeyOf(q)
        /\ lastCommit[KeyOf(r)] = Some(1)
        /\ req[r].resp = CountResponse(200, 1)

(* C5: atomic read.  A lookup returns a state the key had at some moment
   between the arrival of the Get and the lookup: the state at arrival or
   the count of a Set that committed on the key meanwhile.  With one Set
   running next to the Get that is the state before or after that Set. *)
AtomicRead ==
    [][\A r \in Reqs :
         (SelectStep(r) /\ req'[r].result.ok)
             => req'[r].result.row \in {RowFor(h) : h \in req[r].cands}]_vars

AtomicReadWitness ==
    \E r, q \in Reqs :
        /\ IsGet(r) /\ req[r].pc = "respond" /\ req[r].result.ok
        /\ req[r].result.row = None
        /\ IsPost(q) /\ req[q].pc = "respond" /\ req[q].result.ok
        /\ KeyOf(q) = KeyOf(r)

(* C6: overwrite, not accumulate.  The step in which a Set of v succeeds
   leaves exactly one row for the key and its count is v, whether or not
   the key had a row and whatever its count was. *)
OverwriteNotAccumulate ==
    [][\A r \in Reqs :
         (UpsertStep(r) /\ req'[r].result.ok)
             => /\ Select(table', Namespace(r), CounterName(r))
                     = Some(Some(Submitted(r)))
                /\ \A row \in RowsOf(table', Namespace(r), CounterName(r)) :
                      CopiesIn(row, table') = 1]_vars

OverwriteNotAccumulateWitness ==
    \E r, q \in Reqs :
        /\ IsPost(q) /\ req[q].pc = "done" /\ req[q].resp.status = 200
        /\ Submitted(q) = 1
        /\ IsPost(r) /\ req[r].pc = "respond" /\ req[r].result.ok
        /\ Submitted(r) = 2
        /\ KeyOf(r) = KeyOf(q)
        /\ Lookup(KeyOf(r)) = Some(Some(2))

(* C7: absence.  A Get whose lookup runs when no Set has ever committed on
   its key answers 404 with the error "Counter not found", never 200. *)
Absence ==
    \A r \in Reqs :
        (Answered(r) /\ req[r].seen = None)
            => req[r].resp = ErrorResponse(404, "Counter not found")

AbsenceWitness ==
    \E r \in Reqs :
        /\ Answered(r) /\ KeyOf(r) = <<"b", "x">>
        /\ req[r].resp.status = 404
        /\ lastCommit[<<"a", "x">>] = Some(0)

(* C8: key isolation.  The step in which the database executes a Set leaves
   every row of every other key as it was, also keys with the same namespace
   or the same name; when the last Sets on a/x and b/x submitted 1 and 2 the
   lookups of a/x and b/x return 1 and 2. *)
KeyIsolation ==
    /\ []((lastCommit[<<"a", "x">>] = Some(1) /\ lastCommit[<<"b", "x">>] = Some(2))
            => (Lookup(<<"a", "x">>) = Some(Some(1))
                /\ Lookup(<<"b", "x">>) = Some(Some(2))))
    /\ [][\A r \in Reqs :
            UpsertStep(r)
                => RowsExcept(table', KeyOf(r)) = RowsExcept(table, KeyOf(r))]_vars

KeyIsolationWitness ==
    \E r, q \in Reqs :
        /\ Answered(r) /\ KeyOf(r) = <<"a", "x">>
        /\ req[r].resp = CountResponse(200, 1)
        /\ Answered(q) /\ KeyOf(q) = <<"b", "x">>
        /\ req[q].resp = CountResponse(200, 2)

(* C9: idempotent initialization.  init_db on a database that has the table
   raises no statement error and leaves the table and all its rows as they
   were; creating the table a second time changes nothing the first did. *)
IdempotentInitialize ==
    /\ [](LET once == CreateTable(tableExists, table)
          IN  CreateTable(TRUE, once.rows) = once)
    /\ [][\A p \in Procs :
            (proc[p].pc = "pool" /\ proc'[p].pc # "pool" /\ tableExists)
                => /\ table' = table
                   /\ tableExists'
                   /\ proc'[p].err \in {"", "io", "bind"}]_vars

\* The only process served (the table has a row), was started again, and
\* its init_db went through: it stopped at bind.
IdempotentInitializeWitness ==
    /\ DOMAIN proc = {"p1"}
    /\ proc["p1"] = [pc |-> "aborted", err |-> "bind"]
    /\ BagCardinality(table) = 2

(* C10: validation before the store.  A request whose path is not two
   non-empty segments, or a POST whose body has no integer count, is answered
   at once with a 4xx status: its handler is never called, no connection is
   taken and the table is unchanged. *)
Invalid(q) ==
    \/ Len(q.path) # 2
    \/ \E i \in 1..Len(q.path) : q.path[i] = ""
    \/ q.method = "POST" /\ q.body.kind # "int"

ValidationBeforeStore ==
    /\ [](\A r \in Reqs : InFlight(r) => ~Invalid(req[r]))
    /\ [][\A r \in Reqs :
            (req[r].pc = "idle" /\ req'[r].pc # "idle" /\ Invalid(req'[r]))
                => /\ req'[r].pc = "done"
                   /\ req'[r].resp.status \in 400..499
                   /\ table' = table
                   /\ inUse' = inUse
                   /\ lastCommit' = lastCommit]_vars

ValidationBeforeStoreWitness ==
    \E r \in Reqs :
        /\ req[r].pc = "done" /\ IsPost(r)
        /\ req[r].path = <<"a", "x">> /\ req[r].body.kind = "missing"
        /\ req[r].resp.status = 400
        /\ table # EmptyBag

(* C11: per-request errors are contained.  Every store call that returns Err
   in a handler is answered 500 with the body {"error": <the error's text>},
   and no step of a request stops its process: a serving process with an
   open request keeps serving. *)
StoreFailed(r) ==
    req[r].pc = "done" /\ ~req[r].result.ok /\ req[r].result # NoResult

ErrorsContained ==
    /\ [](\A r \in Reqs :
            StoreFailed(r)
                => /\ req[r].result.err # ""
                   /\ req[r].resp = ErrorResponse(500, req[r].result.err)
                   /\ proc[req[r].proc].pc = "serving")
    /\ [][\A r \in Reqs :
            req[r].pc # "idle" => proc'[req[r].proc] = proc[req[r].proc]]_vars

\* A POST and a GET of one process both failed and a row is there: each is
\* answered 500 and the process serves.
ErrorsContainedWitness ==
    \E r, q \in Reqs :
        /\ StoreFailed(r) /\ IsPost(r) /\ req[r].resp.status = 500
        /\ StoreFailed(q) /\ IsGet(q) /\ req[q].resp.status = 500
        /\ table # EmptyBag
        /\ proc[req[r].proc].pc = "serving"

(* C12: Set result.  A POST is answered 200 only if its upsert returned Ok,
   which it does only in the step that commits it; the body of the 200 is
   the submitted count, which is the count of the key's row right after that
   step, whatever other Sets on the key commit before or after it. *)
SetResult ==
    /\ [](\A r \in Reqs :
            (IsPost(r) /\ req[r].pc = "done" /\ req[r].resp.status = 200)
                => /\ req[r].result.ok
                   /\ req[r].resp = CountResponse(200, Submitted(r)))
    /\ [][\A r \in Reqs :
            (UpsertStep(r) /\ req'[r].result.ok)
                => /\ Lookup(KeyOf(r))' = Some(Some(Submitted(r)))
                   /\ lastCommit'[KeyOf(r)] = Some(Submitted(r))]_vars

\* A POST of 1 is answered 200 {count: 1} while the row already holds the 2
\* of a Set that committed after it.
SetResultWitness ==
    \E r, q \in Reqs :
        /\ IsPost(r) /\ req[r].pc = "done"
        /\ req[r].resp = CountResponse(200, 1)
        /\ IsPost(q) /\ req[q].pc = "respond" /\ req[q].result.ok
        /\ Submitted(q) = 2 /\ KeyOf(q) = KeyOf(r)
        /\ Lookup(KeyOf(r)) = Some(Some(2))

(* C13: startup ordering.  A process enters the serving state only from the
   state in which it holds the pool, by an init_db that succeeded, so the
   table exists whenever a request is open; a process whose pool or init_db
   failed is aborted and serves nothing: it can only be started again from
   the top of main. *)
StartupOrdering ==
    /\ [](\A r \in Reqs :
            req[r].pc # "idle"
                => tableExists /\ proc[req[r].proc].pc = "serving")
    /\ [](\A p \in Procs : proc[p].pc = "serving" => tableExists)
    /\ [][\A p \in Procs :
            /\ (proc'[p].pc = "serving" /\ proc[p].pc # "serving")
                  => proc[p].pc = "pool" /\ proc'[p].err = ""
            /\ (proc'[p].pc = "pool" /\ proc[p].pc # "pool")
                  => proc[p].pc \in {"stopped", "aborted"}
            /\ (proc[p].pc = "aborted" /\ proc'[p] # proc[p])
                  => proc'[p].pc \in {"pool", "aborted"}]_vars

\* One process serves a request while the init_db of the other failed on the
\* way to the database: that one is aborted.
StartupOrderingWitness ==
    \E p, q \in Procs :
        /\ proc[p].pc = "serving"
        /\ \E r \in Reqs : req[r].proc = p /\ req[r].pc = "exec"
        /\ proc[q] = [pc |-> "aborted", err |-> "io"]
        /\ \A r \in Reqs : req[r].proc # q

(* C14: records are never deleted.  A key that has a row keeps a row in
   every step, whatever Set, Get or init_db runs; so a key on which a Set
   has committed has a row, and a Get whose lookup runs after that commit
   and returns Ok is not answered 404. *)
HasRow(t, k) == RowsOf(t, k[1], k[2]) # {}

NeverDeleted ==
    /\ [][\A k \in Keys : HasRow(table, k) => HasRow(table', k)]_vars
    /\ [](\A k \in Keys : lastCommit[k] # None => HasRow(table, k))
    /\ [](\A r \in Reqs :
            (Answered(r) /\ req[r].seen # None) => req[r].resp.status = 200)

\* The only process wrote a/x = 2, was started again and ran init_db (it
\* stopped at bind): the row is still there.
NeverDeletedWitness ==
    /\ DOMAIN proc = {"p1"}
    /\ proc["p1"] = [pc |-> "aborted", err |-> "bind"]
    /\ lastCommit[<<"a", "x">>] = Some(2)
    /\ Lookup(<<"a", "x">>) = Some(Some(2))

(* C15: exactly one store call per request.  A request that passed the route
   and the extractors is answered after exactly one store call has returned,
   an upsert for a POST and a lookup for a GET, also when that call returned
   Err; a request the framework rejected has made none.  Every 200 of a GET
   carries what its own lookup returned. *)
OneStoreCall ==
    /\ [](\A r \in Reqs :
            /\ req[r].pc \in {"respond", "done"}
                  => req[r].calls = (IF req[r].result = NoResult THEN 0 ELSE 1)
            /\ req[r].pc \in {"idle", "acquire", "exec"} => req[r].calls = 0
            /\ (req[r].pc = "done" /\ ~Invalid(req[r])) => req[r].calls = 1
            /\ (Answered(r) /\ req[r].resp.status = 200)
                  => req[r].resp.count = req[r].result.row[1])
    /\ [][\A r \in Reqs :
            req'[r].calls # req[r].calls
                => \/ req'[r].pc = "idle"
                   \/ /\ InFlight(r)
                      /\ req'[r].pc = "respond"
                      /\ req'[r].calls = req[r].calls + 1
                      /\ IsPost(r) => (table' = table \/ UpsertStep(r))]_vars

\* A POST whose upsert failed is answered 500 after its one call, and a GET
\* whose lookup failed too.
OneStoreCallWitness ==
    \E r, q \in Reqs :
        /\ IsPost(r) /\ req[r].pc = "done" /\ req[r].resp.status = 500
        /\ req[r].calls = 1
        /\ IsGet(q) /\ req[q].pc = "done" /\ req[q].resp.status = 500
        /\ req[q].calls = 1
        /\ table = EmptyBag

(* C16, as amended: bounded pool with queuing.  At no time are more than 5
   connections of a process in use, and they are exactly those of its
   requests whose statement is at the database.  A request that arrives when
   all 5 are in use waits; while they stay in use it gets no connection: it
   either goes on waiting or, when the pool's acquire timeout expires, its
   store call returns Err and it is answered 500.  It is never dropped: under
   fairness every request whose handler runs is answered. *)
Holding(p) == {r \in Reqs : req[r].pc = "exec" /\ req[r].proc = p}

BoundedPool ==
    /\ [](\A p \in Procs :
            inUse[p] <= MaxConnections /\ inUse[p] = Cardinality(Holding(p)))
    /\ [][\A r \in PoolReqs :
            (req[r].pc = "acquire" /\ inUse[req[r].proc] = MaxConnections)
                => \/ req'[r] = req[r]
                   \/ /\ req'[r].pc = "respond"
                      /\ req'[r].result = ErrResult("pool timed out")]_vars
    /\ [](\A r \in PoolReqs :
            (req[r].pc = "done" /\ req[r].result.err = "pool timed out")
                => req[r].queued /\ req[r].resp.status = 500)
    /\ (\E r \in PoolReqs : InFlight(r)) ~> (\A r \in PoolReqs : ~InFlight(r))

\* A request that arrived when all 5 connections were in use has been given
\* one later: its lookup ran and it is answered.
BoundedPoolWitness ==
    \E r \in Reqs :
        /\ req[r].queued /\ req[r].pc = "done"
        /\ req[r].result.ok /\ req[r].resp.status = 404

(* C16, as claimed: no more than 5 connections are in use, and a request
   that arrived when all 5 were in use is not failed by a timeout: when its
   store call has returned, its statement has been at the database. *)
QueuedNeverTimesOut ==
    /\ \A p \in Procs : inUse[p] <= MaxConnections
    /\ \A r \in Reqs :
          (req[r].queued /\ req[r].pc \in {"respond", "done"})
              => req[r].result.err # "pool timed out"

(* C17: Get is read-only.  No step of a GET, from its arrival to its answer
   with 200, 404 or 500, changes the table: the rows, their counts and the
   existence of the table stay; a Get of a key without a row leaves the key
   without a row. *)
GetStep(r) ==
    /\ req'[r].pc # req[r].pc
    /\ IsGet(r) \/ req'[r].method = "GET"

GetReadOnly ==
    [][\A r \in Reqs :
         GetStep(r)
             => /\ table' = table
                /\ tableExists' = tableExists
                /\ lastCommit' = lastCommit]_vars

\* Two Gets of a/y are answered, one 404 and one 500; a/x has a row and a/y
\* has none.
GetReadOnlyWitness ==
    \E r, q \in Reqs :
        /\ Answered(r) /\ KeyOf(r) = <<"a", "y">> /\ req[r].resp.status = 404
        /\ IsGet(q) /\ req[q].pc = "done" /\ req[q].resp.status = 500
        /\ KeyOf(q) = <<"a", "y">>
        /\ ~HasRow(table, <<"a", "y">>)
        /\ HasRow(table, <<"a", "x">>)

(* C18: no null counts.  Every row of the table has a count that is not
   NULL, so every row a lookup returns has one and unwrap_or(0) never takes
   its default; a GET is answered 200 with count 0 only when the Set that
   committed last on its key before the lookup submitted 0. *)
NoNullCounts ==
    /\ \A row \in BagToSet(table) : row.count # None
    /\ \A r \in Reqs :
          (IsGet(r) /\ req[r].result.ok /\ req[r].result.row # None)
              => req[r].result.row[1] # None
    /\ \A r \in Reqs :
          (Answered(r) /\ req[r].resp = CountResponse(200, 0))
              => req[r].seen = Some(0)

\* A Set of 0 was answered 200 and a Get of its key is answered 200 with 0.
NoNullCountsWitness ==
    \E r, q \in Reqs :
        /\ IsPost(q) /\ req[q].pc = "done"
        /\ req[q].resp = CountResponse(200, 0)
        /\ Answered(r) /\ KeyOf(r) = KeyOf(q)
        /\ req[r].resp = CountResponse(200, 0)
        /\ req[r].seen = Some(0)

====
